---- MODULE Spec2Model ----
(***************************************************************************)
(* Model of go-revolver's latency-ring routing table                      *)
(* (src/routingtable/rings.go: ring, ringsRoutingTable and its background *)
(* refresh goroutine) and of the pairing service (client.pair).           *)
(***************************************************************************)
EXTENDS Integers, Sequences, FiniteSets, TLC

\* ------------------------------------------------------------------ bounds

\* Largest `count` a caller passes to Recommend.
MaxCount == 3

\* Longest exclude list a caller passes to Recommend.
MaxExclude == 2

\* Number of API calls (Add, Remove, Recommend, Size, Shutdown) in one run.
MaxCalls == 3

\* Number of pair() invocations in one run.
MaxSessions == 2

\* Number of peers ring.Add puts into the rings of one run.
MaxRingLen == 3

\* Number of inbound pairing streams the node's pairHandler serves in one run.
MaxInbound == 2

\* ----------------------------------------------------------- configuration

\* RingsConfig of the table under test (rings bounded by [0, 10, 20, 40]).
RingsCount == 4

BaseLatency == 10

LatencyGrowthFactor == 2

SampleSize == 1

\* ------------------------------------------------------------------ domains

\* peer.ID values.
Peers == {"a", "b"}

NoPeer == "-"

\* Caller goroutines; "bg" is the goroutine started by NewRingsRoutingTable.
Threads == {"t1", "t2"}

Bg == "bg"

NoThread == "none"

\* What a LatencyProbeFn call can return as latency (error is separate).
ProbeLat == {5, 25}

\* ------------------------------------------------------------------ helpers

Range(s) == {s[i] : i \in 1..Len(s)}

\* rand.Perm(n), one-based: every permutation of 1..n.
Perm(n) == {f \in [1..n -> 1..n] : \A i, j \in 1..n : f[i] = f[j] => i = j}

\* Every order in which a `for ... range` over a Go map can visit key set S.
Orders(S) == {f \in [1..Cardinality(S) -> S] :
                \A i, j \in 1..Cardinality(S) : f[i] = f[j] => i = j}

Min(a, b) == IF a < b THEN a ELSE b

\* ------------------------------------------------------------------- state

VARIABLES
  peers,      \* r.peers: the keys of the map (every value is true)
  rings,      \* r.rings: RingsCount peer lists
  metrics,    \* r.metrics: the estimator's latmap, a function on the peers with a sample
  shutdown,   \* r.shutdown: "open" or "closed"
  panicked,   \* the process died of an unrecovered panic
  writer,     \* holder of the RWMutex write lock, or NoThread
  readers,    \* holders of the RWMutex read lock
  th,         \* per caller goroutine: position and locals
  bg,         \* the background goroutine: position and locals
  calls,      \* API calls started so far
  removed,    \* history: peers p with a returned Remove(p) and no Add(p) called since
  removedQuiet, \* history: as removed, and no Add(p) was in progress when Remove(p) ran
  addrs,      \* client.peerstore: the peers with cached addresses
  store,      \* client.streamstore: the registered stream of each peer that has one
  sess,       \* per pair() invocation: position, locals, its stream, its result
  hand,       \* per pairHandler invocation: position, locals, its stream
  rstore      \* the streamstore of each remote peer

tableVars == <<peers, rings, metrics, shutdown, panicked, writer, readers,
               th, bg, calls, removed, removedQuiet>>

pairVars == <<addrs, store, sess>>

handVars == <<hand, rstore>>

vars == <<tableVars, pairVars, handVars>>

\* ------------------------------------------------------- pure computations

\* The loop of NewRingsRoutingTable that builds latRanges: 0 first, then k,
\* with k multiplied by the growth factor after every append.
RECURSIVE BuildRanges(_, _, _)
BuildRanges(i, k, acc) ==
  IF i >= RingsCount THEN acc
  ELSE BuildRanges(i + 1, k * LatencyGrowthFactor, Append(acc, k))

LatRanges == BuildRanges(1, BaseLatency, <<0>>)

\* metrics.LatencyEWMA(pid): the stored estimate, zero when there is none.
LatencyEWMA(m, pid) == IF pid \in DOMAIN m THEN m[pid] ELSE 0

\* metrics.RecordLatency(pid, next): the first sample is taken as it is,
\* later ones are smoothed into the estimate with weight 1/10.
RecordLatency(m, pid, next) ==
  [q \in DOMAIN m \cup {pid} |->
     IF q # pid THEN m[q]
     ELSE IF pid \in DOMAIN m THEN (9 * m[pid] + next) \div 10 ELSE next]

\* Mutant: the insert is lost.
PeersInsertLost(ps, pid) == ps

\* r.peers[pid] = true
PeersInsert(ps, pid) == ps \cup {pid}

\* delete(r.peers, pid)
PeersDelete(ps, pid) == ps \ {pid}

\* len(r.peers)
Size == Cardinality(peers)

\* ring.Add
RingAdd(list, pid) == Append(list, pid)

\* The scan of populateRings, from the last range down: the one-based index
\* of the first ring i with latency > latRanges[i], or 0 when there is none.
RECURSIVE RingScan(_, _)
RingScan(latency, i) ==
  IF i < 1 THEN 0
  ELSE IF latency > LatRanges[i] THEN i
  ELSE RingScan(latency, i - 1)

RingOf(latency) == RingScan(latency, RingsCount)

EmptyRings == [i \in 1..RingsCount |-> <<>>]

\* Mutant: the scan has no break, the peer goes into every ring whose range
\* starts below its latency.
RECURSIVE PopulateFromNoBreak(_, _, _, _)
PopulateFromNoBreak(order, k, m, rs) ==
  IF k > Len(order) THEN rs
  ELSE LET pid == order[k]
       IN  PopulateFromNoBreak(order, k + 1, m,
             [i \in 1..RingsCount |->
                IF LatencyEWMA(m, pid) > LatRanges[i] THEN RingAdd(rs[i], pid)
                ELSE rs[i]])

\* populateRings visiting r.peers in the order `order`.
RECURSIVE PopulateFrom(_, _, _, _)
PopulateFrom(order, k, m, rs) ==
  IF k > Len(order) THEN rs
  ELSE LET pid == order[k]
           i   == RingOf(LatencyEWMA(m, pid))
       IN  PopulateFrom(order, k + 1, m,
             IF i = 0 THEN rs ELSE [rs EXCEPT ![i] = RingAdd(rs[i], pid)])

\* Every ring set populateRings can build (one per map iteration order).
PopulateOutcomes(ps, m) == {PopulateFrom(o, 1, m, EmptyRings) : o \in Orders(ps)}

\* ring.Remove: the range loop runs over the n slots of the slice as it was
\* at loop entry, reading the shared backing array arr; each match shifts the
\* tail of the current slice (length len) left by one.  r.peers[i+1:] panics
\* when i+1 exceeds the current length.
RECURSIVE RemoveLoop(_, _, _, _, _)
RemoveLoop(arr, len, i, n, pid) ==
  IF i > n THEN [peers |-> SubSeq(arr, 1, len), panic |-> FALSE]
  ELSE IF arr[i] = pid
       THEN IF i > len
            THEN [peers |-> SubSeq(arr, 1, len), panic |-> TRUE]
            ELSE RemoveLoop([k \in 1..n |-> IF k >= i /\ k < len THEN arr[k + 1]
                                                              ELSE arr[k]],
                            len - 1, i + 1, n, pid)
       ELSE RemoveLoop(arr, len, i + 1, n, pid)

RingRemove(list, pid) == RemoveLoop(list, Len(list), 1, Len(list), pid)

\* The filter loop shared by ring.Recommend and sample: walk the first
\* min(count, len) entries of the permuted list, keep those not excluded.
RECURSIVE TakeFrom(_, _, _, _)
TakeFrom(list, i, count, exclude) ==
  IF i > count \/ i > Len(list) THEN <<>>
  ELSE (IF list[i] \in exclude THEN <<>> ELSE <<list[i]>>)
         \o TakeFrom(list, i + 1, count, exclude)

\* ring.Recommend under permutation perm of the ring's indices.
RingRecommendWith(list, perm, count, exclude) ==
  TakeFrom([i \in 1..Len(list) |-> list[perm[i]]], 1, count, exclude)

RingRecommend(list, count, exclude) ==
  {RingRecommendWith(list, perm, count, exclude) : perm \in Perm(Len(list))}

\* sample: the map's keys in iteration order, permuted, then filtered.
Sample(ps, count, exclude) ==
  {TakeFrom(o, 1, count, exclude) : o \in Orders(ps)}

\* The round-robin loop of Recommend: nodesFromRing after `count` steps.
RECURSIVE Distribute(_, _, _, _)
Distribute(i, j, count, nodes) ==
  IF i >= count THEN nodes
  ELSE Distribute(i + 1, IF j + 1 > RingsCount THEN 1 ELSE j + 1, count,
                  [nodes EXCEPT ![j] = nodes[j] + 1])

NodesFromRing(count) == Distribute(0, 1, count, [i \in 1..RingsCount |-> 0])

\* What the rings contribute, ring i onwards, appended to `acc`.
RECURSIVE FromRings(_, _, _, _, _)
FromRings(rs, i, nodes, exclude, acc) ==
  IF i > RingsCount THEN {acc}
  ELSE UNION {FromRings(rs, i + 1, nodes, exclude, acc \o part) :
                part \in RingRecommend(rs[i], nodes[i], exclude)}

\* Mutant: the peers recommended so far are not added to the exclude set.
FillNoDedupe(ps, recommended, count, exclude) ==
  IF Len(recommended) < count
  THEN {recommended \o s : s \in Sample(ps, count - Len(recommended), exclude)}
  ELSE {recommended}

\* The fallback of Recommend: fill a short result from the whole peer set.
Fill(ps, recommended, count, exclude) ==
  IF Len(recommended) < count
  THEN {recommended \o s :
          s \in Sample(ps, count - Len(recommended),
                       exclude \cup Range(recommended))}
  ELSE {recommended}

\* Every result Recommend(count, excludeList) can return on table (ps, rs).
Recommend(ps, rs, count, exclude) ==
  UNION {Fill(ps, rec, count, exclude) :
           rec \in FromRings(rs, 1, NodesFromRing(count), exclude, <<>>)}

\* ------------------------------------------------------------ the RWMutex

CanRLock == writer = NoThread

CanLock == writer = NoThread /\ readers = {}

\* ------------------------------------------------------- caller goroutines

Idle == [pc |-> "idle", pid |-> NoPeer, lat |-> 0, err |-> FALSE,
         count |-> 0, excl |-> {}, ret |-> <<>>, n |-> 0]

\* Positions of Add between its membership check and its return.
AddPcs == {"add_check", "add_probe", "add_probed", "add_insert"}

AddInProgress(pid) == \E t \in Threads : th[t].pc \in AddPcs /\ th[t].pid = pid

CanCall(t) == ~panicked /\ th[t].pc = "idle" /\ calls < MaxCalls

\* Add(pid) is called and takes the read lock for its membership check.
AddCall(t, pid) ==
  /\ CanCall(t) /\ CanRLock
  /\ th' = [th EXCEPT ![t] = [Idle EXCEPT !.pc = "add_check", !.pid = pid]]
  /\ readers' = readers \cup {t}
  /\ calls' = calls + 1
  /\ removed' = removed \ {pid}
  /\ removedQuiet' = removedQuiet \ {pid}
  /\ UNCHANGED <<pairVars, handVars>>
  /\ UNCHANGED <<peers, rings, metrics, shutdown, panicked, writer, bg>>

\* Mutant: the read lock of the membership check is not released.
AddCheckKeepsLock(t) ==
  /\ ~panicked /\ th[t].pc = "add_check"
  /\ th' = [th EXCEPT ![t] = IF th[t].pid \in peers THEN Idle
                             ELSE [@ EXCEPT !.pc = "add_probe"]]
  /\ UNCHANGED <<pairVars, handVars>>
  /\ UNCHANGED <<peers, rings, metrics, shutdown, panicked, writer, readers, bg,
                 calls, removed, removedQuiet>>

\* return r.peers[pid] under the read lock; a known peer ends the call.
AddCheck(t) ==
  /\ ~panicked /\ th[t].pc = "add_check"
  /\ readers' = readers \ {t}
  /\ th' = [th EXCEPT ![t] = IF th[t].pid \in peers THEN Idle
                             ELSE [@ EXCEPT !.pc = "add_probe"]]
  /\ UNCHANGED <<pairVars, handVars>>
  /\ UNCHANGED <<peers, rings, metrics, shutdown, panicked, writer, bg, calls,
                 removed, removedQuiet>>

\* latency, err := r.conf.LatencyProbFn(pid), with no lock held.
AddProbe(t) ==
  /\ ~panicked /\ th[t].pc = "add_probe"
  /\ \/ \E l \in ProbeLat :
          th' = [th EXCEPT ![t] = [@ EXCEPT !.pc = "add_probed", !.lat = l]]
     \/ th' = [th EXCEPT ![t] = [@ EXCEPT !.pc = "add_probed", !.err = TRUE]]
  /\ UNCHANGED <<pairVars, handVars>>
  /\ UNCHANGED <<peers, rings, metrics, shutdown, panicked, writer, readers, bg,
                 calls, removed, removedQuiet>>

\* Mutant: the error is logged and Add goes on to insert the peer.
AddProbeFailedInserts(t) ==
  /\ ~panicked /\ th[t].pc = "add_probed" /\ th[t].err /\ CanLock
  /\ peers' = PeersInsert(peers, th[t].pid)
  /\ th' = [th EXCEPT ![t] = Idle]
  /\ UNCHANGED <<pairVars, handVars>>
  /\ UNCHANGED <<rings, metrics, shutdown, panicked, writer, readers, bg,
                 calls, removed, removedQuiet>>

\* if err != nil: log and return.
AddProbeFailed(t) ==
  /\ ~panicked /\ th[t].pc = "add_probed" /\ th[t].err
  /\ th' = [th EXCEPT ![t] = Idle]
  /\ UNCHANGED <<pairVars, handVars>>
  /\ UNCHANGED <<peers, rings, metrics, shutdown, panicked, writer, readers, bg,
                 calls, removed, removedQuiet>>

\* r.Lock() after a successful probe.
AddLock(t) ==
  /\ ~panicked /\ th[t].pc = "add_probed" /\ ~th[t].err /\ CanLock
  /\ writer' = t
  /\ th' = [th EXCEPT ![t] = [@ EXCEPT !.pc = "add_insert"]]
  /\ UNCHANGED <<pairVars, handVars>>
  /\ UNCHANGED <<peers, rings, metrics, shutdown, panicked, readers, bg, calls,
                 removed, removedQuiet>>

\* RecordLatency, r.peers[pid] = true, and the deferred Unlock.
AddInsert(t) ==
  /\ ~panicked /\ th[t].pc = "add_insert"
  /\ metrics' = RecordLatency(metrics, th[t].pid, th[t].lat)
  /\ peers' = PeersInsert(peers, th[t].pid)
  /\ writer' = NoThread
  /\ th' = [th EXCEPT ![t] = Idle]
  /\ UNCHANGED <<pairVars, handVars>>
  /\ UNCHANGED <<rings, shutdown, panicked, readers, bg, calls, removed,
                 removedQuiet>>

\* Remove(pid) is called and takes the write lock.
RemoveCall(t, pid) ==
  /\ CanCall(t) /\ CanLock
  /\ writer' = t
  /\ th' = [th EXCEPT ![t] = [Idle EXCEPT !.pc = "rm_body", !.pid = pid]]
  /\ calls' = calls + 1
  /\ UNCHANGED <<pairVars, handVars>>
  /\ UNCHANGED <<peers, rings, metrics, shutdown, panicked, readers, bg,
                 removed, removedQuiet>>

\* Mutant: Remove leaves the rings alone.
RingsRemoveSkipped(rs, pid) == rs

\* The rings after ring.Remove(pid) on each of them.
RingsRemove(rs, pid) == [i \in 1..RingsCount |-> RingRemove(rs[i], pid).peers]

RingsRemovePanics(rs, pid) == \E i \in 1..RingsCount : RingRemove(rs[i], pid).panic

\* The locked body of Remove: delete(r.peers, pid), then ring.Remove(pid) on
\* every ring.
RemoveEffect(pid) ==
  /\ peers' = PeersDelete(peers, pid)
  /\ rings' = RingsRemove(rings, pid)
  /\ panicked' = RingsRemovePanics(rings, pid)
  /\ removed' = removed \cup {pid}
  /\ removedQuiet' = IF AddInProgress(pid) THEN removedQuiet \ {pid}
                     ELSE removedQuiet \cup {pid}

\* The body of Remove and its deferred Unlock.
RemoveBody(t) ==
  /\ ~panicked /\ th[t].pc = "rm_body"
  /\ RemoveEffect(th[t].pid)
  /\ writer' = NoThread
  /\ th' = [th EXCEPT ![t] = Idle]
  /\ UNCHANGED <<pairVars, handVars>>
  /\ UNCHANGED <<metrics, shutdown, readers, bg, calls>>

\* The exclude lists callers pass, as the set Recommend turns them into.
ExcludeLists == {e \in SUBSET Peers : Cardinality(e) <= MaxExclude}

\* Recommend(count, excludeList) is called and takes the read lock.
RecommendCall(t, count, exclude) ==
  /\ CanCall(t) /\ CanRLock
  /\ readers' = readers \cup {t}
  /\ th' = [th EXCEPT ![t] = [Idle EXCEPT !.pc = "rec_body", !.count = count,
                                          !.excl = exclude]]
  /\ calls' = calls + 1
  /\ UNCHANGED <<pairVars, handVars>>
  /\ UNCHANGED <<peers, rings, metrics, shutdown, panicked, writer, bg,
                 removed, removedQuiet>>

\* The body of Recommend: `recommended` is computed.
RecommendBody(t) ==
  /\ ~panicked /\ th[t].pc = "rec_body"
  /\ \E res \in Recommend(peers, rings, th[t].count, th[t].excl) :
       th' = [th EXCEPT ![t] = [@ EXCEPT !.pc = "rec_ret", !.ret = res]]
  /\ UNCHANGED <<pairVars, handVars>>
  /\ UNCHANGED <<peers, rings, metrics, shutdown, panicked, writer, readers, bg,
                 calls, removed, removedQuiet>>

\* return recommended, with the deferred RUnlock.
RecommendReturn(t) ==
  /\ ~panicked /\ th[t].pc = "rec_ret"
  /\ readers' = readers \ {t}
  /\ th' = [th EXCEPT ![t] = Idle]
  /\ UNCHANGED <<pairVars, handVars>>
  /\ UNCHANGED <<peers, rings, metrics, shutdown, panicked, writer, bg, calls,
                 removed, removedQuiet>>

\* Size() reads len(r.peers), taking no lock.
SizeCall(t) ==
  /\ CanCall(t)
  /\ th' = [th EXCEPT ![t] = [Idle EXCEPT !.pc = "size_ret", !.n = Size]]
  /\ calls' = calls + 1
  /\ UNCHANGED <<pairVars, handVars>>
  /\ UNCHANGED <<peers, rings, metrics, shutdown, panicked, writer, readers, bg,
                 removed, removedQuiet>>

SizeReturn(t) ==
  /\ ~panicked /\ th[t].pc = "size_ret"
  /\ th' = [th EXCEPT ![t] = Idle]
  /\ UNCHANGED <<pairVars, handVars>>
  /\ UNCHANGED <<peers, rings, metrics, shutdown, panicked, writer, readers, bg,
                 calls, removed, removedQuiet>>

\* Shutdown(): close(r.shutdown); closing a closed channel panics.
ShutdownCall(t) ==
  /\ CanCall(t)
  /\ IF shutdown = "closed"
     THEN panicked' = TRUE /\ shutdown' = shutdown
     ELSE shutdown' = "closed" /\ panicked' = panicked
  /\ calls' = calls + 1
  /\ UNCHANGED <<pairVars, handVars>>
  /\ UNCHANGED <<peers, rings, metrics, writer, readers, th, bg, removed,
                 removedQuiet>>

\* --------------------------------------------- the background goroutine

BgStart == [pc |-> "select", sample |-> <<>>, lat |-> 0, err |-> FALSE]

\* select: time.After(SamplePeriod) fires; refreshLatency takes the read lock.
BgPeriodElapsed ==
  /\ ~panicked /\ bg.pc = "select" /\ CanRLock
  /\ readers' = readers \cup {Bg}
  /\ bg' = [bg EXCEPT !.pc = "rf_snapshot"]
  /\ UNCHANGED <<pairVars, handVars>>
  /\ UNCHANGED <<peers, rings, metrics, shutdown, panicked, writer, th, calls,
                 removed, removedQuiet>>

\* Mutant: the shutdown channel is polled only once the period has elapsed.
BgShutdownAfterPeriod ==
  /\ ~panicked /\ bg.pc = "rf_snapshot" /\ shutdown = "closed"
  /\ readers' = readers \ {Bg}
  /\ bg' = [bg EXCEPT !.pc = "stopped"]
  /\ UNCHANGED <<pairVars, handVars>>
  /\ UNCHANGED <<peers, rings, metrics, shutdown, panicked, writer, th, calls,
                 removed, removedQuiet>>

\* select: the shutdown channel is closed; the goroutine returns.
BgShutdown ==
  /\ ~panicked /\ bg.pc = "select" /\ shutdown = "closed"
  /\ bg' = [bg EXCEPT !.pc = "stopped"]
  /\ UNCHANGED <<pairVars, handVars>>
  /\ UNCHANGED <<peers, rings, metrics, shutdown, panicked, writer, readers, th,
                 calls, removed, removedQuiet>>

\* The samples refreshLatency can draw from peer set ps.
RefreshSamples(ps) ==
  {SubSeq(o, 1, Min(SampleSize, Cardinality(ps))) : o \in Orders(ps)}

\* The peers are listed under the read lock, then a random sample is drawn.
BgSnapshot ==
  /\ ~panicked /\ bg.pc = "rf_snapshot"
  /\ readers' = readers \ {Bg}
  /\ \E smp \in RefreshSamples(peers) :
       bg' = [bg EXCEPT !.pc = "rf_loop", !.sample = smp]
  /\ UNCHANGED <<pairVars, handVars>>
  /\ UNCHANGED <<peers, rings, metrics, shutdown, panicked, writer, th, calls,
                 removed, removedQuiet>>

\* latency, err := r.conf.LatencyProbFn(pid) for the next sampled peer.
BgProbe ==
  /\ ~panicked /\ bg.pc = "rf_loop" /\ bg.sample # <<>>
  /\ \/ \E l \in ProbeLat : bg' = [bg EXCEPT !.pc = "rf_probed", !.lat = l]
     \/ bg' = [bg EXCEPT !.pc = "rf_probed", !.err = TRUE]
  /\ UNCHANGED <<pairVars, handVars>>
  /\ UNCHANGED <<peers, rings, metrics, shutdown, panicked, writer, readers, th,
                 calls, removed, removedQuiet>>

\* if err != nil: log, go on with the next sampled peer.
BgProbeFailed ==
  /\ ~panicked /\ bg.pc = "rf_probed" /\ bg.err
  /\ bg' = [bg EXCEPT !.pc = "rf_loop", !.sample = Tail(bg.sample), !.err = FALSE]
  /\ UNCHANGED <<pairVars, handVars>>
  /\ UNCHANGED <<peers, rings, metrics, shutdown, panicked, writer, readers, th,
                 calls, removed, removedQuiet>>

\* r.Lock() to record a successful probe.
BgRecordLock ==
  /\ ~panicked /\ bg.pc = "rf_probed" /\ ~bg.err /\ CanLock
  /\ writer' = Bg
  /\ bg' = [bg EXCEPT !.pc = "rf_record"]
  /\ UNCHANGED <<pairVars, handVars>>
  /\ UNCHANGED <<peers, rings, metrics, shutdown, panicked, readers, th, calls,
                 removed, removedQuiet>>

\* r.metrics.RecordLatency(pid, latency) and the deferred Unlock.
BgRecord ==
  /\ ~panicked /\ bg.pc = "rf_record"
  /\ metrics' = RecordLatency(metrics, Head(bg.sample), bg.lat)
  /\ writer' = NoThread
  /\ bg' = [bg EXCEPT !.pc = "rf_loop", !.sample = Tail(bg.sample), !.lat = 0]
  /\ UNCHANGED <<pairVars, handVars>>
  /\ UNCHANGED <<peers, rings, shutdown, panicked, readers, th, calls, removed,
                 removedQuiet>>

\* refreshLatency has returned; populateRings takes the write lock.
BgPopulateLock ==
  /\ ~panicked /\ bg.pc = "rf_loop" /\ bg.sample = <<>> /\ CanLock
  /\ writer' = Bg
  /\ bg' = [bg EXCEPT !.pc = "populate"]
  /\ UNCHANGED <<pairVars, handVars>>
  /\ UNCHANGED <<peers, rings, metrics, shutdown, panicked, readers, th, calls,
                 removed, removedQuiet>>

\* populateRings builds and swaps in the rings; the select statement is not
\* in a loop, so the goroutine ends here.
BgPopulate ==
  /\ ~panicked /\ bg.pc = "populate"
  /\ rings' \in PopulateOutcomes(peers, metrics)
  /\ writer' = NoThread
  /\ bg' = [bg EXCEPT !.pc = "done"]
  /\ UNCHANGED <<pairVars, handVars>>
  /\ UNCHANGED <<peers, metrics, shutdown, panicked, readers, th, calls,
                 removed, removedQuiet>>


\* ------------------------------------------------------------ client.pair

\* Control bytes.
ack == 6

nak == 21

\* What the one byte read from the stream can be.
Bytes == {0, ack, nak}

\* pair() invocations of one run; invocation s works on stream s.
Sessions == 1..MaxSessions

NoSession == [pc |-> "idle", peer |-> NoPeer, err |-> "none", byte |-> 0,
              closes |-> 0, handed |-> 0, ok |-> FALSE]

\* streamstore.Add(pid, stream, outbound): a peer that has an entry is
\* refused; otherwise the store accepts, or refuses for a reason of its own.
StoreAccepts(st, pid) == IF pid \in DOMAIN st THEN {FALSE} ELSE {TRUE, FALSE}

\* The store once Add has accepted.
StorePut(st, pid, stream, outbound) ==
  [q \in DOMAIN st \cup {pid} |->
     IF q = pid THEN [stream |-> stream, outbound |-> outbound] ELSE st[q]]

\* client.peerstore.ClearAddrs(pid)
ClearAddrs(as, pid) == as \ {pid}

\* pair(pid) is called.
PairCall(s, pid) ==
  /\ ~panicked /\ sess[s].pc = "idle"
  /\ sess' = [sess EXCEPT ![s] = [NoSession EXCEPT !.pc = "connect", !.peer = pid]]
  /\ UNCHANGED <<tableVars, addrs, store, handVars>>

\* stream, err := client.host.NewStream(...)
PairNewStream(s) ==
  /\ ~panicked /\ sess[s].pc = "connect"
  /\ \E e \in {"none", "connect"} :
       sess' = [sess EXCEPT ![s] = [@ EXCEPT !.pc = "connected", !.err = e]]
  /\ UNCHANGED <<tableVars, addrs, store, handVars>>

\* err != nil: ClearAddrs(pid), table.Remove(pid), return false, err.
PairConnectFailed(s) ==
  /\ ~panicked /\ sess[s].pc = "connected" /\ sess[s].err # "none" /\ CanLock
  /\ addrs' = ClearAddrs(addrs, sess[s].peer)
  /\ RemoveEffect(sess[s].peer)
  /\ sess' = [sess EXCEPT ![s] = [@ EXCEPT !.pc = "returned", !.ok = FALSE]]
  /\ UNCHANGED <<metrics, shutdown, writer, readers, th, bg, calls, store,
                 handVars>>

\* data, err := util.ReadWithTimeout(stream, 1, timeout)
PairRead(s) ==
  /\ ~panicked /\ sess[s].pc = "connected" /\ sess[s].err = "none"
  /\ \/ \E b \in Bytes :
          sess' = [sess EXCEPT ![s] = [@ EXCEPT !.pc = "read_done", !.byte = b]]
     \/ sess' = [sess EXCEPT ![s] = [@ EXCEPT !.pc = "read_done", !.err = "read"]]
  /\ UNCHANGED <<tableVars, addrs, store, handVars>>

\* Mutant: a failed read drops the peer like a failed connect does.
PairReadFailedRemoves(s) ==
  /\ ~panicked /\ sess[s].pc = "read_done" /\ sess[s].err # "none" /\ CanLock
  /\ addrs' = ClearAddrs(addrs, sess[s].peer)
  /\ RemoveEffect(sess[s].peer)
  /\ sess' = [sess EXCEPT ![s] = [@ EXCEPT !.pc = "returned", !.ok = FALSE,
                                           !.closes = @ + 1]]
  /\ UNCHANGED <<metrics, shutdown, writer, readers, th, bg, calls, store,
                 handVars>>

\* err != nil: stream.Close(), return false, err.
PairReadFailed(s) ==
  /\ ~panicked /\ sess[s].pc = "read_done" /\ sess[s].err # "none"
  /\ sess' = [sess EXCEPT ![s] = [@ EXCEPT !.pc = "returned", !.ok = FALSE,
                                           !.closes = @ + 1]]
  /\ UNCHANGED <<tableVars, addrs, store, handVars>>

\* Mutant: streamstore.Add is called before the byte is looked at.
PairDecideEager(s) ==
  /\ ~panicked /\ sess[s].pc = "read_done" /\ sess[s].err = "none"
  /\ \E accepted \in StoreAccepts(store, sess[s].peer) :
       /\ store' = IF accepted THEN StorePut(store, sess[s].peer, s, TRUE) ELSE store
       /\ IF accepted /\ sess[s].byte = ack
          THEN sess' = [sess EXCEPT ![s] = [@ EXCEPT !.pc = "returned",
                          !.ok = TRUE, !.handed = @ + 1]]
          ELSE sess' = [sess EXCEPT ![s] = [@ EXCEPT !.pc = "returned",
                          !.ok = FALSE, !.closes = @ + 1]]
  /\ UNCHANGED <<tableVars, addrs, handVars>>

\* data[0] == ack && streamstore.Add(pid, stream, true): go process(stream)
\* and success; otherwise stream.Close().  return success, nil.
PairDecide(s) ==
  /\ ~panicked /\ sess[s].pc = "read_done" /\ sess[s].err = "none"
  /\ \/ /\ sess[s].byte = ack
        /\ \E accepted \in StoreAccepts(store, sess[s].peer) :
             IF accepted
             THEN /\ store' = StorePut(store, sess[s].peer, s, TRUE)
                  /\ sess' = [sess EXCEPT ![s] = [@ EXCEPT !.pc = "returned",
                                !.ok = TRUE, !.handed = @ + 1]]
             ELSE /\ store' = store
                  /\ sess' = [sess EXCEPT ![s] = [@ EXCEPT !.pc = "returned",
                                !.ok = FALSE, !.closes = @ + 1]]
     \/ /\ sess[s].byte # ack
        /\ store' = store
        /\ sess' = [sess EXCEPT ![s] = [@ EXCEPT !.pc = "returned",
                      !.ok = FALSE, !.closes = @ + 1]]
  /\ UNCHANGED <<tableVars, addrs, handVars>>

\* ----------------------------------------------------- client.pairHandler

\* The peer id under which the remote peers know this node.
Self == "self"

\* Streams opened towards this node by remote peers; its pairHandler serves each.
Inbound == (MaxSessions + 1)..(MaxSessions + MaxInbound)

\* Every pairing stream: stream s of Sessions is opened by pair() invocation
\* s and served by the pairHandler of the peer it connects to.
Streams == Sessions \cup Inbound

NoHandler == [pc |-> "idle", node |-> NoPeer, peer |-> NoPeer, added |-> FALSE,
              wrote |-> 0, werr |-> FALSE, closes |-> 0, handed |-> 0]

\* The streamstore of the node a handler runs on.
StoreOf(n) == IF n = Self THEN store ELSE rstore[n]

\* streamstore.Remove(pid): the entry of pid is gone.
StoreRemove(st, pid) == [q \in DOMAIN st \ {pid} |-> st[q]]

\* The node's streamstore becomes st.
SetStore(n, st) ==
  IF n = Self
  THEN store' = st /\ rstore' = rstore
  ELSE store' = store /\ rstore' = [rstore EXCEPT ![n] = st]

\* The stream of a pair() invocation has been opened.
StreamOpen(s) ==
  sess[s].pc \in {"connected", "read_done", "returned"} /\ sess[s].err # "connect"

\* The host calls pairHandler(stream): on the peer that pair() invocation h
\* connected to, with pid this node; or on this node, with pid a remote peer.
PairHandlerCall(h) ==
  /\ ~panicked /\ hand[h].pc = "idle"
  /\ \/ /\ h \in Sessions /\ StreamOpen(h)
        /\ hand' = [hand EXCEPT ![h] = [NoHandler EXCEPT !.pc = "add",
                      !.node = sess[h].peer, !.peer = Self]]
     \/ /\ h \in Inbound
        /\ \E pid \in Peers :
             hand' = [hand EXCEPT ![h] = [NoHandler EXCEPT !.pc = "add",
                        !.node = Self, !.peer = pid]]
  /\ UNCHANGED <<tableVars, pairVars, rstore>>

\* Mutant: the result of streamstore.Add is not looked at.
PairHandlerAddUnchecked(h) ==
  /\ ~panicked /\ hand[h].pc = "add"
  /\ SetStore(hand[h].node, StorePut(StoreOf(hand[h].node), hand[h].peer, h, FALSE))
  /\ hand' = [hand EXCEPT ![h] = [@ EXCEPT !.pc = "ack", !.added = TRUE]]
  /\ UNCHANGED <<tableVars, addrs, sess>>

\* if !client.streamstore.Add(pid, stream, false) { reject(...); return }
PairHandlerAdd(h) ==
  /\ ~panicked /\ hand[h].pc = "add"
  /\ \E accepted \in StoreAccepts(StoreOf(hand[h].node), hand[h].peer) :
       IF accepted
       THEN /\ SetStore(hand[h].node,
                        StorePut(StoreOf(hand[h].node), hand[h].peer, h, FALSE))
            /\ hand' = [hand EXCEPT ![h] = [@ EXCEPT !.pc = "ack", !.added = TRUE]]
       ELSE /\ UNCHANGED <<store, rstore>>
            /\ hand' = [hand EXCEPT ![h] = [@ EXCEPT !.pc = "reject"]]
  /\ UNCHANGED <<tableVars, addrs, sess>>

\* Mutant: reject writes the ack byte.
PairHandlerRejectAcks(h) ==
  /\ ~panicked /\ hand[h].pc = "reject"
  /\ \/ hand' = [hand EXCEPT ![h] = [@ EXCEPT !.pc = "returned", !.wrote = ack,
                                              !.closes = @ + 1]]
     \/ hand' = [hand EXCEPT ![h] = [@ EXCEPT !.pc = "returned", !.werr = TRUE,
                                              !.closes = @ + 1]]
  /\ UNCHANGED <<tableVars, pairVars, rstore>>

\* reject: WriteWithTimeout(stream, nak), a failure is only logged;
\* stream.Close(); return.
PairHandlerReject(h) ==
  /\ ~panicked /\ hand[h].pc = "reject"
  /\ \/ hand' = [hand EXCEPT ![h] = [@ EXCEPT !.pc = "returned", !.wrote = nak,
                                              !.closes = @ + 1]]
     \/ hand' = [hand EXCEPT ![h] = [@ EXCEPT !.pc = "returned", !.werr = TRUE,
                                              !.closes = @ + 1]]
  /\ UNCHANGED <<tableVars, pairVars, rstore>>

\* Mutant: a failed write of ack is only logged.
PairHandlerAckKeepsEntry(h) ==
  /\ ~panicked /\ hand[h].pc = "ack"
  /\ \/ hand' = [hand EXCEPT ![h] = [@ EXCEPT !.pc = "returned", !.wrote = ack,
                                              !.handed = @ + 1]]
     \/ hand' = [hand EXCEPT ![h] = [@ EXCEPT !.pc = "returned", !.werr = TRUE]]
  /\ UNCHANGED <<tableVars, pairVars, rstore>>

\* err := WriteWithTimeout(stream, ack); without an error go process(stream)
\* and return.
PairHandlerAck(h) ==
  /\ ~panicked /\ hand[h].pc = "ack"
  /\ \/ hand' = [hand EXCEPT ![h] = [@ EXCEPT !.pc = "returned", !.wrote = ack,
                                              !.handed = @ + 1]]
     \/ hand' = [hand EXCEPT ![h] = [@ EXCEPT !.pc = "undo", !.werr = TRUE]]
  /\ UNCHANGED <<tableVars, pairVars, rstore>>

\* err != nil: client.streamstore.Remove(pid); return.
PairHandlerUndo(h) ==
  /\ ~panicked /\ hand[h].pc = "undo"
  /\ SetStore(hand[h].node, StoreRemove(StoreOf(hand[h].node), hand[h].peer))
  /\ hand' = [hand EXCEPT ![h] = [@ EXCEPT !.pc = "returned"]]
  /\ UNCHANGED <<tableVars, addrs, sess>>

\* data, err := util.ReadWithTimeout(stream, 1, timeout) on a stream whose
\* other end is a pairHandler: the byte the handler wrote, or a failure (the
\* timeout passed, or the stream ended, before a byte arrived).
PairReadStream(s) ==
  /\ ~panicked /\ sess[s].pc = "connected" /\ sess[s].err = "none"
  /\ \/ /\ hand[s].wrote # 0
        /\ sess' = [sess EXCEPT ![s] = [@ EXCEPT !.pc = "read_done",
                                                 !.byte = hand[s].wrote]]
     \/ sess' = [sess EXCEPT ![s] = [@ EXCEPT !.pc = "read_done", !.err = "read"]]
  /\ UNCHANGED <<tableVars, addrs, store, handVars>>

\* A node whose table and address book know some peers: the peers were added
\* (each first sample is its estimate), and the refresh cycle has either not
\* run yet or has built the rings.
InitPair ==
  /\ peers \in (SUBSET Peers) \ {{}}
  /\ metrics \in [peers -> ProbeLat]
  /\ \/ rings = EmptyRings /\ bg = BgStart
     \/ rings \in PopulateOutcomes(peers, metrics) /\ bg = [BgStart EXCEPT !.pc = "done"]
  /\ shutdown = "open"
  /\ panicked = FALSE
  /\ writer = NoThread
  /\ readers = {}
  /\ th = [t \in Threads |-> Idle]
  /\ calls = 0
  /\ removed = {}
  /\ removedQuiet = {}
  /\ addrs = Peers
  /\ store = <<>>
  /\ sess = [s \in Sessions |-> NoSession]
  /\ hand = [h \in Streams |-> NoHandler]
  /\ rstore = [p \in Peers |-> <<>>]

NextPair ==
  \/ \E s \in Sessions, pid \in Peers : PairCall(s, pid)
  \/ \E s \in Sessions : PairNewStream(s)
  \/ \E s \in Sessions : PairConnectFailed(s)
  \/ \E s \in Sessions : PairRead(s)
  \/ \E s \in Sessions : PairReadFailed(s)
  \/ \E s \in Sessions : PairDecide(s)

SpecPair == InitPair /\ [][NextPair]_vars

\* The pair() invocations that run against the pairHandler of their peer.
Initiators == {1}

\* pair() invocations of this node, the pairHandler of the peer each one
\* connects to, and this node's pairHandler serving inbound streams.
NextHandshake ==
  \/ \E s \in Initiators, pid \in Peers : PairCall(s, pid)
  \/ \E s \in Initiators : PairNewStream(s)
  \/ \E s \in Initiators : PairConnectFailed(s)
  \/ \E s \in Initiators : PairReadStream(s)
  \/ \E s \in Initiators : PairReadFailed(s)
  \/ \E s \in Initiators : PairDecide(s)
  \/ \E h \in Streams : PairHandlerCall(h)
  \/ \E h \in Streams : PairHandlerAdd(h)
  \/ \E h \in Streams : PairHandlerReject(h)
  \/ \E h \in Streams : PairHandlerAck(h)
  \/ \E h \in Streams : PairHandlerUndo(h)

\* A node that has added every peer and built its rings.
InitHandshake ==
  /\ InitPair
  /\ peers = Peers
  /\ bg.pc = "done"
  /\ \E l \in ProbeLat : metrics = [p \in Peers |-> l]

SpecHandshake == InitHandshake /\ [][NextHandshake]_vars

\* ------------------------------------------------- populateRings on its own

\* Estimates LatencyEWMA returns: zero, the ranges themselves, and values
\* inside the first, the third and the last range.
Estimates == {0, 5, 10, 20, 25, 40, 50}

\* A refresh cycle that has recorded its samples and is about to repopulate
\* the rings of a table whose peers have any of the estimates.
InitPopulate ==
  /\ peers \in SUBSET Peers
  /\ metrics \in [peers -> Estimates]
  /\ rings = EmptyRings
  /\ shutdown = "open"
  /\ panicked = FALSE
  /\ writer = NoThread
  /\ readers = {}
  /\ th = [t \in Threads |-> Idle]
  /\ bg = [BgStart EXCEPT !.pc = "rf_loop"]
  /\ calls = 0
  /\ removed = {}
  /\ removedQuiet = {}
  /\ addrs = {}
  /\ store = <<>>
  /\ sess = [s \in Sessions |-> NoSession]
  /\ hand = [h \in Streams |-> NoHandler]
  /\ rstore = [p \in Peers |-> <<>>]

NextPopulate ==
  \/ BgPopulateLock
  \/ BgPopulate

SpecPopulate == InitPopulate /\ [][NextPopulate]_vars

\* ---------------------------------------------------------- specification

Init ==
  /\ peers = {}
  /\ rings = EmptyRings
  /\ metrics = <<>>
  /\ shutdown = "open"
  /\ panicked = FALSE
  /\ writer = NoThread
  /\ readers = {}
  /\ th = [t \in Threads |-> Idle]
  /\ bg = BgStart
  /\ calls = 0
  /\ removed = {}
  /\ removedQuiet = {}
  /\ addrs = {}
  /\ store = <<>>
  /\ sess = [s \in Sessions |-> NoSession]
  /\ hand = [h \in Streams |-> NoHandler]
  /\ rstore = [p \in Peers |-> <<>>]

Next ==
  \/ \E t \in Threads, pid \in Peers : AddCall(t, pid)
  \/ \E t \in Threads : AddCheck(t)
  \/ \E t \in Threads : AddProbe(t)
  \/ \E t \in Threads : AddProbeFailed(t)
  \/ \E t \in Threads : AddLock(t)
  \/ \E t \in Threads : AddInsert(t)
  \/ \E t \in Threads, pid \in Peers : RemoveCall(t, pid)
  \/ \E t \in Threads : RemoveBody(t)
  \/ \E t \in Threads, count \in 0..MaxCount, e \in ExcludeLists :
       RecommendCall(t, count, e)
  \/ \E t \in Threads : RecommendBody(t)
  \/ \E t \in Threads : RecommendReturn(t)
  \/ \E t \in Threads : SizeCall(t)
  \/ \E t \in Threads : SizeReturn(t)
  \/ \E t \in Threads : ShutdownCall(t)
  \/ BgPeriodElapsed
  \/ BgShutdown
  \/ BgSnapshot
  \/ BgProbe
  \/ BgProbeFailed
  \/ BgRecordLock
  \/ BgRecord
  \/ BgPopulateLock
  \/ BgPopulate

Spec == Init /\ [][Next]_vars

\* --------------------------------------------------- the ring on its own

RECURSIVE RingsLen(_, _)
RingsLen(rs, i) == IF i > Len(rs) THEN 0 ELSE Len(rs[i]) + RingsLen(rs, i + 1)

\* r.rings[i].Add(pid): a ring takes a peer it already holds once more.
RingAddCall(i, pid) ==
  /\ ~panicked /\ RingsLen(rings, 1) < MaxRingLen
  /\ rings' = [rings EXCEPT ![i] = RingAdd(rings[i], pid)]
  /\ UNCHANGED <<pairVars, handVars>>
  /\ UNCHANGED <<peers, metrics, shutdown, panicked, writer, readers, th, bg,
                 calls, removed, removedQuiet>>

\* r.rings[i].Remove(pid)
RingRemoveCall(i, pid) ==
  /\ ~panicked
  /\ rings' = [rings EXCEPT ![i] = RingRemove(rings[i], pid).peers]
  /\ panicked' = RingRemove(rings[i], pid).panic
  /\ UNCHANGED <<pairVars, handVars>>
  /\ UNCHANGED <<peers, metrics, shutdown, writer, readers, th, bg, calls,
                 removed, removedQuiet>>

NextRing ==
  \/ \E i \in 1..RingsCount, pid \in Peers : RingAddCall(i, pid)
  \/ \E i \in 1..RingsCount, pid \in Peers : RingRemoveCall(i, pid)

SpecRing == Init /\ [][NextRing]_vars

\* ------------------------------------------------------------------ claims

InRecommendReturn(t) == th[t].pc = "rec_ret"

NoDuplicates(s) == \A i, j \in 1..Len(s) : s[i] = s[j] => i = j

\* C1: whatever the table holds, the sequence a Recommend(count, exclude)
\* call returns has no peer of exclude, no peer twice, and at most count
\* elements (count >= 0).
C1_RecommendResult ==
  \A t \in Threads :
    InRecommendReturn(t) =>
      /\ Range(th[t].ret) \cap th[t].excl = {}
      /\ NoDuplicates(th[t].ret)
      /\ Len(th[t].ret) <= th[t].count

\* A Recommend that returned a peer out of populated rings while a known
\* peer was excluded.
C1_Witness ==
  \E t \in Threads :
    /\ InRecommendReturn(t)
    /\ th[t].ret # <<>>
    /\ th[t].excl \cap peers # {}
    /\ \E i \in 1..RingsCount : rings[i] # <<>>

\* C2: when the table holds at least count peers outside exclude,
\* Recommend(count, exclude) returns exactly count peers, whatever the
\* permutations drawn.
C2_RecommendFillsCount ==
  \A t \in Threads :
    (InRecommendReturn(t) /\ Cardinality(peers \ th[t].excl) >= th[t].count)
      => Len(th[t].ret) = th[t].count

\* C3 as claimed: after Remove(p) has returned, with no Add(p) called since,
\* no Recommend returns p (an Add(p) in progress during the Remove allowed).
C3_RemovedNeverRecommended ==
  \A t \in Threads :
    InRecommendReturn(t) => Range(th[t].ret) \cap removed = {}

\* C3 as amended: after Remove(p) has returned, with no Add(p) called since
\* and none in progress when the Remove ran, no Recommend returns p.
C3_QuietRemovedNeverRecommended ==
  \A t \in Threads :
    InRecommendReturn(t) => Range(th[t].ret) \cap removedQuiet = {}

\* A Recommend asked for peers, excluding none, after a peer that had been
\* known (it has a latency sample) was removed.
C3_Witness ==
  \E t \in Threads :
    /\ InRecommendReturn(t)
    /\ th[t].count >= 1
    /\ th[t].excl = {}
    /\ removedQuiet \cap DOMAIN metrics # {}

\* C4: the insert of a successful Add(p) leaves p in peers and makes Size()
\* grow by exactly 1 when p was unknown and by 0 when a racing Add(p) had
\* inserted it already; an Add(p) that finds p known changes nothing.
C4_AddOnce ==
  [][\A t \in Threads :
       /\ (th[t].pc = "add_insert" /\ th'[t].pc = "idle") =>
            /\ th[t].pid \in peers'
            /\ Size' = Size + (IF th[t].pid \in peers THEN 0 ELSE 1)
       /\ (th[t].pc = "add_check" /\ th[t].pid \in peers /\ th'[t].pc = "idle") =>
            UNCHANGED <<peers, rings, metrics>>]_vars

\* A second Add(p), whose probe succeeded too, holds the write lock for its
\* insert after a racing Add(p) has inserted p.
C4_Witness ==
  \E t \in Threads :
    /\ th[t].pc = "add_insert"
    /\ th[t].pid \in peers
    /\ Size = 1

\* C5: a failed probe changes neither the known peers nor the estimator: the
\* Add that saw it returns without inserting, the refresh skips the peer.
C5_FailedProbeKeepsPeers ==
  [][/\ \A t \in Threads :
          (th[t].pc = "add_probed" /\ th[t].err /\ th'[t].pc # "add_probed")
            => (peers' = peers /\ metrics' = metrics)
     /\ (bg.pc = "rf_probed" /\ bg.err /\ bg'.pc # "rf_probed")
            => (peers' = peers /\ metrics' = metrics)]_vars

\* A probe has failed in Add while a probe has failed in the refresh cycle.
C5_Witness ==
  /\ \E t \in Threads : th[t].pc = "add_probed" /\ th[t].err
  /\ bg.pc = "rf_probed" /\ bg.err /\ Head(bg.sample) \in peers

\* C6: a Shutdown() call never panics, also when the channel is closed
\* already.
C6_ShutdownIdempotent ==
  [][(\E t \in Threads : ShutdownCall(t)) => ~panicked']_vars

\* C7: the refresh cycle repeats until shutdown: the background goroutine
\* has not ended unless Shutdown() was called.
C7_RefreshRepeatsUntilShutdown ==
  bg.pc = "done" => shutdown = "closed"

\* The table under Add and Shutdown calls only, with the scheduling the Go
\* runtime gives: a goroutine that can take its next step takes it, a
\* lock holder releases, and a probe returns.  Nothing is assumed of the
\* period timer: SamplePeriod may be arbitrarily long.
NextLive ==
  \/ \E t \in Threads, pid \in Peers : AddCall(t, pid)
  \/ \E t \in Threads : AddCheck(t)
  \/ \E t \in Threads : AddProbe(t)
  \/ \E t \in Threads : AddProbeFailed(t)
  \/ \E t \in Threads : AddLock(t)
  \/ \E t \in Threads : AddInsert(t)
  \/ \E t \in Threads : ShutdownCall(t)
  \/ BgPeriodElapsed
  \/ BgShutdown
  \/ BgSnapshot
  \/ BgProbe
  \/ BgProbeFailed
  \/ BgRecordLock
  \/ BgRecord
  \/ BgPopulateLock
  \/ BgPopulate

Fairness ==
  /\ WF_vars(BgShutdown)
  /\ WF_vars(BgSnapshot)
  /\ WF_vars(BgProbe)
  /\ WF_vars(BgProbeFailed)
  /\ WF_vars(BgRecordLock)
  /\ WF_vars(BgRecord)
  /\ WF_vars(BgPopulateLock)
  /\ WF_vars(BgPopulate)
  /\ \A t \in Threads : WF_vars(AddCheck(t)) /\ WF_vars(AddInsert(t))

SpecLive == Init /\ [][NextLive]_vars /\ Fairness

\* The goroutine has returned: out of the shutdown case, or after its cycle.
BgEnded == bg.pc \in {"stopped", "done"}

BgTerminated == BgEnded \/ panicked

\* C8: once Shutdown() has been called the background goroutine eventually
\* ends, with no help from the period timer (the process dying of a panic
\* ends it too).
C8_ShutdownStopsBackground == (shutdown = "closed") ~> BgTerminated

\* Shutdown() was called while the goroutine waited in its select, and the
\* goroutine has returned out of the shutdown case.
C8_Witness ==
  /\ shutdown = "closed"
  /\ bg.pc = "stopped"
  /\ ~panicked

InRings(rs, pid) == \E i \in 1..RingsCount : pid \in Range(rs[i])

\* C9: pair(peer) drops peer from the routing table and clears its cached
\* addresses when, and only when, the stream cannot be opened, and then
\* returns (false, error); a failed read of the control byte returns
\* (false, error) with the stream closed and the table left as it was.
C9_RemoveOnlyOnConnectFailure ==
  [][\A s \in Sessions :
       /\ (sess[s].pc = "connected" /\ sess[s].err # "none"
             /\ sess'[s].pc = "returned") =>
            /\ sess[s].peer \notin peers'
            /\ ~InRings(rings', sess[s].peer)
            /\ sess[s].peer \notin addrs'
            /\ ~sess'[s].ok /\ sess'[s].err # "none"
       /\ (sess[s].pc = "read_done" /\ sess[s].err # "none"
             /\ sess'[s].pc = "returned") =>
            /\ ~sess'[s].ok /\ sess'[s].err # "none"
            /\ sess'[s].closes = 1 /\ sess'[s].handed = 0
            /\ UNCHANGED <<peers, rings, addrs>>
       /\ (sess'[s] # sess[s]
             /\ ~(sess[s].pc = "connected" /\ sess[s].err # "none")) =>
            UNCHANGED <<peers, rings, addrs>>]_vars

\* One pair() has returned from a failed read with its stream closed and its
\* peer still known, another from a failed connect with its peer dropped.
C9_Witness ==
  \E s1, s2 \in Sessions :
    /\ sess[s1].pc = "returned" /\ sess[s1].err = "read"
    /\ sess[s1].closes = 1 /\ sess[s1].peer \in peers
    /\ InRings(rings, sess[s1].peer)
    /\ sess[s2].pc = "returned" /\ sess[s2].err = "connect"
    /\ sess[s2].peer \notin peers /\ sess[s2].peer \in DOMAIN metrics

\* streamstore.Add returned true in this step: the entry of pid is new and
\* holds the outbound stream.
StoreAdded(s) ==
  /\ sess[s].peer \notin DOMAIN store
  /\ sess[s].peer \in DOMAIN store'
  /\ store'[sess[s].peer] = [stream |-> s, outbound |-> TRUE]

\* C10: with a control byte read, pair(peer) returns (true, nil) and hands
\* the stream to the artifact task exactly when the byte is ACK and
\* streamstore.Add returns true; otherwise it closes the stream, starts no
\* task and returns (false, nil); a byte other than ACK leaves the store as
\* it was.
C10_PairedIffAckAndStored ==
  [][\A s \in Sessions :
       (sess[s].pc = "read_done" /\ sess[s].err = "none"
          /\ sess'[s].pc = "returned") =>
         /\ sess'[s].err = "none"
         /\ (sess'[s].ok <=> (sess[s].byte = ack /\ StoreAdded(s)))
         /\ sess'[s].ok => (sess'[s].handed = 1 /\ sess'[s].closes = 0)
         /\ ~sess'[s].ok => (sess'[s].handed = 0 /\ sess'[s].closes = 1)
         /\ sess[s].byte # ack => store' = store
         /\ ~StoreAdded(s) => store' = store]_vars

\* One pair() has succeeded on ACK; another, for the same peer, read ACK too,
\* was refused by the store and returned (false, nil) with its stream closed;
\* a third kind, on NAK, is covered by the formula.
C10_Witness ==
  \E s1, s2 \in Sessions :
    /\ sess[s1].pc = "returned" /\ sess[s1].ok /\ sess[s1].handed = 1
    /\ sess[s2].pc = "returned" /\ ~sess[s2].ok /\ sess[s2].err = "none"
    /\ sess[s2].byte = ack /\ sess[s2].closes = 1
    /\ sess[s2].peer = sess[s1].peer

\* streamstore.Add refused the inbound stream of handler h.
Rejected(h) == hand[h].pc \in {"reject", "returned"} /\ ~hand[h].added

\* The step is handler h being refused by the store, or running reject.
RejectStep(h) ==
  \/ hand[h].pc = "add" /\ hand'[h].pc = "reject"
  \/ hand[h].pc = "reject" /\ hand'[h].pc = "returned"

\* C11 as stated: when the responder's streamstore refuses the inbound
\* stream, the responder sends the nak byte 0x15 and closes its stream with
\* its streamstore unchanged, the initiator's pair() returns (false, nil), and
\* neither side starts an artifact task.
C11_RejectedHandshake ==
  /\ [](\A s \in Initiators :
          (Rejected(s) /\ hand[s].pc = "returned" /\ sess[s].pc = "returned") =>
            /\ hand[s].wrote = nak /\ hand[s].closes = 1 /\ hand[s].handed = 0
            /\ ~sess[s].ok /\ sess[s].err = "none" /\ sess[s].handed = 0)
  /\ [][\A h \in Streams : RejectStep(h) => UNCHANGED <<store, rstore>>]_vars

\* C11 amended: when the responder's streamstore refuses the inbound stream,
\* the responder tries to send the nak byte 0x15 and closes its stream with
\* its streamstore unchanged, and neither side starts an artifact task; the
\* initiator's pair() returns false, with a nil error exactly when it has read
\* the nak byte, and with the read error when the write of nak failed or the
\* read timed out first.
C11_RejectedHandshakeBestEffort ==
  /\ [](\A s \in Initiators :
          /\ Rejected(s) => hand[s].handed = 0 /\ hand[s].wrote \in {0, nak}
          /\ (Rejected(s) /\ hand[s].pc = "returned") =>
               /\ hand[s].closes = 1
               /\ hand[s].wrote = nak <=> ~hand[s].werr
          /\ (Rejected(s) /\ sess[s].pc = "returned") =>
               /\ ~sess[s].ok /\ sess[s].handed = 0 /\ sess[s].closes = 1
               /\ sess[s].err \in {"none", "read"}
               /\ sess[s].err = "none" <=> sess[s].byte = nak
               /\ sess[s].err = "none" => hand[s].wrote = nak)
  /\ [][\A h \in Streams : RejectStep(h) => UNCHANGED <<store, rstore>>]_vars

\* The responder refused the stream and wrote nak, and pair() has read it and
\* returned (false, nil).
C11_Witness ==
  \E s \in Initiators :
    /\ Rejected(s) /\ hand[s].pc = "returned" /\ hand[s].wrote = nak
    /\ hand[s].closes = 1 /\ hand[s].peer = Self
    /\ sess[s].pc = "returned" /\ sess[s].byte = nak /\ sess[s].err = "none"
    /\ ~sess[s].ok

\* The pairing streams of this node with peer p that were handed to the
\* artifact task: by pair(p), or by the pairHandler serving a stream from p.
HandedStreams(p) ==
  {s \in Sessions : sess[s].peer = p /\ sess[s].handed >= 1}
    \cup {h \in Streams : hand[h].node = Self /\ hand[h].peer = p
                            /\ hand[h].handed >= 1}

\* C12: on one node, of the pairing sessions with one peer (pair(peer) calls
\* and handlers of inbound streams from that peer, interleaved in any way) at
\* most one ends with its stream handed to the artifact task, and that stream
\* is the one the streamstore holds for the peer.
C12_OneWinnerPerPeer ==
  \A p \in Peers :
    /\ Cardinality(HandedStreams(p)) <= 1
    /\ \A x \in HandedStreams(p) : p \in DOMAIN store /\ store[p].stream = x

\* Three sessions with one peer have ended: an inbound stream was registered
\* and handed over, pair() read ack and was refused by the store, and the
\* handler of another inbound stream was refused too.
C12_Witness ==
  \E p \in Peers, s \in Sessions, h1, h2 \in Inbound :
    /\ hand[h1].pc = "returned" /\ hand[h1].peer = p /\ hand[h1].handed = 1
    /\ sess[s].pc = "returned" /\ sess[s].peer = p /\ sess[s].byte = ack
    /\ sess[s].err = "none" /\ ~sess[s].ok
    /\ hand[h2].pc = "returned" /\ hand[h2].peer = p /\ ~hand[h2].added
    /\ h1 # h2

\* The number of places pid takes in the rings.
Occurrences(rs, pid) ==
  Cardinality({<<i, k>> \in (1..RingsCount) \X (1..Cardinality(Peers) + 1) :
                 k <= Len(rs[i]) /\ rs[i][k] = pid})

\* The repopulation pass of this refresh cycle has completed.
Repopulated == bg.pc = "done"

\* C13: after a repopulation pass every peer of r.peers is in exactly one
\* ring, whatever its estimate, zero and the range boundaries included.
C13_EveryPeerInOneRing ==
  Repopulated => \A p \in peers : Occurrences(rings, p) = 1

\* C14: repopulation puts a peer with estimate L into the ring n (counted
\* from 0) with latRanges[n] <= L < latRanges[n+1], the last ring having no
\* upper end; latRanges is 0, 10, 20, 40, and a peer at 20 is in ring 2.
C14_RingByClosedOpenRange ==
  Repopulated =>
    \A p \in peers, n \in 0..(RingsCount - 1) :
      p \in Range(rings[n + 1]) <=>
        /\ LatRanges[n + 1] <= LatencyEWMA(metrics, p)
        /\ n + 1 < RingsCount => LatencyEWMA(metrics, p) < LatRanges[n + 2]

\* Goroutine x holds the table's lock, for reading or for writing.
HoldsLock(x) == x \in readers \/ writer = x

\* The background goroutine is inside LatencyProbFn.
BgInProbe == bg.pc = "rf_loop" /\ bg.sample # <<>>

\* C15: no goroutine is inside LatencyProbFn, called from Add or from
\* refreshLatency, while it holds the table's read or write lock.
C15_NoLockAcrossProbe ==
  /\ \A t \in Threads : th[t].pc = "add_probe" => ~HoldsLock(t)
  /\ BgInProbe => ~HoldsLock(Bg)

\* While an Add and the refresh cycle are both inside a probe, another
\* caller holds the write lock.
C15_Witness ==
  \E t1, t2 \in Threads :
    /\ th[t1].pc = "add_probe" /\ BgInProbe
    /\ t1 # t2 /\ writer = t2

\* C16: every access to the table's state is made under the lock; Size reads
\* r.peers holding the read lock, so it never reads while another goroutine
\* holds the write lock and is in the middle of a write.
C16_SizeReadsUnderLock ==
  [][\A t \in Threads : SizeCall(t) => writer = NoThread]_vars

\* The streamstore of handler h's node holds the entry h's Add created.
HoldsEntryOf(h) ==
  /\ hand[h].peer \in DOMAIN StoreOf(hand[h].node)
  /\ StoreOf(hand[h].node)[hand[h].peer] = [stream |-> h, outbound |-> FALSE]

\* C17: a handler whose Add succeeded and whose write of ack failed has
\* removed the peer's entry when it returns and has started no artifact
\* task; once a handler has returned, the streamstore holds the entry it
\* created only if it wrote ack.
C17_NoEntryWithoutAck ==
  \A h \in Streams :
    hand[h].pc = "returned" =>
      /\ (hand[h].added /\ hand[h].werr) =>
           ~HoldsEntryOf(h) /\ hand[h].handed = 0
      /\ HoldsEntryOf(h) => hand[h].wrote = ack /\ hand[h].handed = 1

\* A handler registered its stream, failed to write ack and returned with
\* the entry removed; another handler registered, wrote ack and returned
\* with its entry in place.
C17_Witness ==
  \E h1, h2 \in Streams :
    /\ hand[h1].pc = "returned" /\ hand[h1].added /\ hand[h1].werr
    /\ hand[h1].peer \notin DOMAIN StoreOf(hand[h1].node)
    /\ hand[h2].pc = "returned" /\ hand[h2].wrote = ack /\ HoldsEntryOf(h2)

\* C18: every pairing session that opened a stream, pair() or pairHandler,
\* ends with the stream closed exactly once or handed to the artifact task
\* exactly once, never both and never neither; every failure path (read
\* failure, nak, refusal by the store, failed write of nak, failed write of
\* ack) ends with the stream closed.
C18_ClosedOrHandedOnce ==
  /\ \A s \in Sessions :
       (sess[s].pc = "returned" /\ sess[s].err # "connect") =>
         /\ sess[s].closes + sess[s].handed = 1
         /\ ~sess[s].ok => sess[s].closes = 1
  /\ \A h \in Streams :
       hand[h].pc = "returned" =>
         /\ hand[h].closes + hand[h].handed = 1
         /\ hand[h].wrote # ack => hand[h].closes = 1

\* The list with every occurrence of pid deleted and the rest in order.
Without(list, pid) == SelectSeq(list, LAMBDA q : q # pid)

\* C19: ring.Remove(pid) deletes every occurrence of pid from the ring's
\* list, keeps the other peers in their order, and does not fail, also when
\* pid occurs more than once.
C19_RemoveDeletesAll ==
  [][\A i \in 1..RingsCount, pid \in Peers :
       RingRemoveCall(i, pid) =>
         ~panicked' /\ rings'[i] = Without(rings[i], pid)]_vars

\* C20: in every state of the table the rings hold only peers of r.peers,
\* no peer is in two rings or twice in one ring, and there are RingsCount
\* rings.
C20_RingsHoldKnownPeersOnce ==
  /\ Len(rings) = RingsCount
  /\ \A i \in 1..RingsCount : Range(rings[i]) \subseteq peers
  /\ \A p \in Peers : Occurrences(rings, p) <= 1

\* The rings were populated with two peers and one of them was removed
\* afterwards: the rings hold the other one only.
C20_Witness ==
  /\ bg.pc = "done"
  /\ \E p \in peers, q \in removed :
       /\ Occurrences(rings, p) = 1
       /\ q \in DOMAIN metrics /\ q \notin peers /\ Occurrences(rings, q) = 0

====
